---- MODULE Spec2Model ----
(***************************************************************************)
(* A model of src/app.py, the chat-completion reverse proxy.               *)
(*                                                                         *)
(* Python values are tagged records, the payload field named by the tag:   *)
(*   None        [t |-> "null"]                                            *)
(*   bool        [t |-> "bool",  b |-> BOOLEAN]                            *)
(*   int         [t |-> "int",   i |-> Int]                                *)
(*   float       [t |-> "float", f |-> <<kind, m, e>>]  kind "fin" is the  *)
(*               decimal m / 10^e; kinds "inf", "-inf", "nan"              *)
(*   str         [t |-> "str",   s |-> sequence of one-character strings]  *)
(*   list        [t |-> "list",  l |-> sequence of values]                 *)
(*   dict        [t |-> "dict",  d |-> sequence of <<key, value>> pairs in *)
(*               insertion order, keys (TLA+ strings) pairwise distinct]   *)
(* An operator that models a Python function which may raise returns       *)
(* [exc |-> name of the exception or "none", val |-> the value returned].  *)
(***************************************************************************)
EXTENDS Integers, Sequences, FiniteSets, TLC

VARIABLES
    pc,       \* position of the call or of the request handler
    arg,      \* the argument a normalizer is called with
    ret,      \* what the normalizer returned (or left in the mutated argument)
    exc,      \* the exception the call raised, "none" when it returned
    request,  \* the inbound HTTP request: method, path, parsed body
    sent,     \* the outbound calls issued to the backend, in order
    backend,  \* what the outbound call produced: a response or a transport error
    replies,  \* the responses returned to the client, in order
    raised    \* the exceptions raised while handling the request, in order

vars == <<pc, arg, ret, exc, request, sent, backend, replies, raised>>

(* ------------------------------ bounds --------------------------------- *)
MaxStrLen == 3      \* length of the generated max_tokens strings
MaxRun == 3         \* length of a run of separators in a generated model name
MaxMessages == 2    \* messages in a generated conversation
MaxTools == 2       \* entries in a generated tools list
MaxBlocks == 2      \* blocks in a generated content list
MaxEntries == 2     \* entries in a generated models listing

(* --------------------------- program constants ------------------------- *)
ORIGINAL_MODEL_ID ==
    <<"a","n","t","h","r","o","p","i","c","-","c","l","a","u","d","e","-",
      "o","p","u","s","-","4",".","5">>
REWROTE_MODEL_ID == <<"d","o","-","o","p","u","s","-","4",".","5">>
DEFAULT_MAX_TOKENS == 1024

(* ------------------------------ values --------------------------------- *)
None == [t |-> "null"]
Bool(b) == [t |-> "bool", b |-> b]
Int_(n) == [t |-> "int", i |-> n]
Float(kind, m, e) == [t |-> "float", f |-> <<kind, m, e>>]
Str(s) == [t |-> "str", s |-> s]
List(xs) == [t |-> "list", l |-> xs]
Dict(pairs) == [t |-> "dict", d |-> pairs]

IsStr(x) == x.t = "str"
IsList(x) == x.t = "list"
IsDict(x) == x.t = "dict"

Ok(x) == [exc |-> "none", val |-> x]
Raise(e) == [exc |-> e, val |-> None]

\* bool(x): Python truthiness
Truthy(x) ==
    CASE x.t = "null" -> FALSE
      [] x.t = "bool" -> x.b
      [] x.t = "int" -> x.i # 0
      [] x.t = "float" -> ~(x.f[1] = "fin" /\ x.f[2] = 0)
      [] x.t = "str" -> Len(x.s) > 0
      [] x.t = "list" -> Len(x.l) > 0
      [] OTHER -> Len(x.d) > 0

\* k in d
HasKey(d, k) == \E i \in 1..Len(d.d) : d.d[i][1] = k

\* d[k], for a key that is present
Item(d, k) == d.d[CHOOSE i \in 1..Len(d.d) : d.d[i][1] = k][2]

\* d.get(k, default)
Get(d, k, default) == IF HasKey(d, k) THEN Item(d, k) ELSE default

\* d[k] = x: an existing key keeps its position, a new key goes last
SetItem(d, k, x) ==
    IF HasKey(d, k)
    THEN Dict([i \in 1..Len(d.d) |-> IF d.d[i][1] = k THEN <<k, x>> ELSE d.d[i]])
    ELSE Dict(Append(d.d, <<k, x>>))

\* the keys of a dict, as a set
Keys(d) == {d.d[i][1] : i \in 1..Len(d.d)}

\* dict equality in Python: the same keys with equal values, whatever the order
RECURSIVE PyEq(_, _)
PyEq(x, y) ==
    IF x.t # y.t THEN FALSE
    ELSE CASE x.t = "null" -> TRUE
           [] x.t = "dict" ->
                /\ Keys(x) = Keys(y)
                /\ \A k \in Keys(x) : PyEq(Item(x, k), Item(y, k))
           [] x.t = "list" ->
                /\ Len(x.l) = Len(y.l)
                /\ \A i \in 1..Len(x.l) : PyEq(x.l[i], y.l[i])
           [] OTHER -> x = y

(* ------------------------------ strings -------------------------------- *)
RECURSIVE Concat(_)
Concat(ss) == IF ss = <<>> THEN <<>> ELSE Head(ss) \o Concat(Tail(ss))

\* sep.join(parts)
RECURSIVE Join(_, _)
Join(sep, parts) ==
    IF parts = <<>> THEN <<>>
    ELSE IF Len(parts) = 1 THEN parts[1]
    ELSE parts[1] \o sep \o Join(sep, Tail(parts))

DigitChars == <<"0","1","2","3","4","5","6","7","8","9">>
IsDigit(c) == \E i \in 1..10 : DigitChars[i] = c
DigitVal(c) == (CHOOSE i \in 1..10 : DigitChars[i] = c) - 1

RECURSIVE NatToStr(_)
NatToStr(n) ==
    IF n < 10 THEN <<DigitChars[n + 1]>>
    ELSE NatToStr(n \div 10) \o <<DigitChars[(n % 10) + 1]>>

IntToStr(n) == IF n < 0 THEN <<"-">> \o NatToStr(-n) ELSE NatToStr(n)

\* all sequences over alphabet of length at most n
Strings(alphabet, n) == UNION {[1..k -> alphabet] : k \in 0..n}

UpperChars == <<"A","B","C","D","E","F","G","H","I","J","K","L","M",
                "N","O","P","Q","R","S","T","U","V","W","X","Y","Z">>
LowerChars == <<"a","b","c","d","e","f","g","h","i","j","k","l","m",
                "n","o","p","q","r","s","t","u","v","w","x","y","z">>

LowerChar(c) ==
    IF \E i \in 1..26 : UpperChars[i] = c
    THEN LowerChars[CHOOSE i \in 1..26 : UpperChars[i] = c]
    ELSE c

\* s.lower()
Lower(s) == [i \in 1..Len(s) |-> LowerChar(s[i])]

IsSpace(c) == c \in {" ", "\n", "\t", "\r"}

RECURSIVE LStrip(_)
LStrip(s) == IF s # <<>> /\ IsSpace(Head(s)) THEN LStrip(Tail(s)) ELSE s

RECURSIVE RStrip(_)
RStrip(s) ==
    IF s # <<>> /\ IsSpace(s[Len(s)]) THEN RStrip(SubSeq(s, 1, Len(s) - 1)) ELSE s

\* s.strip()
Strip(s) == RStrip(LStrip(s))

StartsWith(s, p) == Len(s) >= Len(p) /\ SubSeq(s, 1, Len(p)) = p

\* s.replace(old, new), old non-empty: the occurrences are found left to
\* right in one pass and do not overlap; the replacement is not rescanned
RECURSIVE Replace(_, _, _)
Replace(s, old, new) ==
    IF s = <<>> THEN <<>>
    ELSE IF StartsWith(s, old)
         THEN new \o Replace(SubSeq(s, Len(old) + 1, Len(s)), old, new)
         ELSE <<Head(s)>> \o Replace(Tail(s), old, new)

(* --------------------------- float and int ----------------------------- *)
RECURSIVE Pow10(_)
Pow10(e) == IF e = 0 THEN 1 ELSE 10 * Pow10(e - 1)

RECURSIVE DigitsVal(_)
DigitsVal(s) ==
    IF s = <<>> THEN 0 ELSE 10 * DigitsVal(SubSeq(s, 1, Len(s) - 1)) + DigitVal(s[Len(s)])

\* float(s) for a str: surrounding whitespace is stripped, then an optional
\* sign followed by inf, infinity or nan (any case) or by a decimal numeral
\* digits[.digits] or .digits; anything else is a ValueError.  (Exponents
\* and underscores are outside the alphabet of the generated strings.)
ParseFloat(s) ==
    LET u == Lower(Strip(s))
        signed == u # <<>> /\ u[1] \in {"-", "+"}
        neg == u # <<>> /\ u[1] = "-"
        body == IF signed THEN Tail(u) ELSE u
        dots == {i \in 1..Len(body) : body[i] = "."}
        digs == SelectSeq(body, IsDigit)
        e == IF dots = {} THEN 0 ELSE Len(body) - (CHOOSE i \in dots : TRUE)
    IN  IF body \in {<<"i","n","f">>, <<"i","n","f","i","n","i","t","y">>}
        THEN Ok(Float(IF neg THEN "-inf" ELSE "inf", 0, 0))
        ELSE IF body = <<"n","a","n">> THEN Ok(Float("nan", 0, 0))
        ELSE IF /\ Cardinality(dots) <= 1
                /\ Len(digs) >= 1
                /\ Len(digs) + Cardinality(dots) = Len(body)
             THEN Ok(Float("fin", IF neg THEN -DigitsVal(digs) ELSE DigitsVal(digs), e))
             ELSE Raise("ValueError")

\* float(x)
PyFloat(x) ==
    CASE x.t = "float" -> Ok(x)
      [] x.t = "int" -> Ok(Float("fin", x.i, 0))
      [] x.t = "bool" -> Ok(Float("fin", IF x.b THEN 1 ELSE 0, 0))
      [] x.t = "str" -> ParseFloat(x.s)
      [] OTHER -> Raise("TypeError")

\* int(f) for a float f: truncation toward zero; nan and the infinities raise
PyIntOfFloat(f) ==
    CASE f.f[1] = "nan" -> Raise("ValueError")
      [] f.f[1] \in {"inf", "-inf"} -> Raise("OverflowError")
      [] OTHER ->
            LET m == f.f[2]
                p == Pow10(f.f[3])
            IN  Ok(Int_(IF m >= 0 THEN m \div p ELSE -((-m) \div p)))

\* x == '' and x == 0, as validate_max_tokens compares max_tokens
EqEmptyStr(x) == x.t = "str" /\ x.s = <<>>
EqZero(x) ==
    \/ x.t = "int" /\ x.i = 0
    \/ x.t = "bool" /\ ~x.b
    \/ x.t = "float" /\ x.f[1] = "fin" /\ x.f[2] = 0

(* ------------------------- validate_max_tokens ------------------------- *)
\* the except clause of validate_max_tokens
CaughtByValidate == {"ValueError", "TypeError"}

\* validate_max_tokens(data): val is data as the call leaves it
validate_max_tokens(data) ==
    IF ~Truthy(data) THEN Ok(data)
    ELSE LET max_tokens == Get(data, "max_tokens", None)
             default == Ok(SetItem(data, "max_tokens", Int_(DEFAULT_MAX_TOKENS)))
         IN  IF max_tokens.t = "null" \/ EqEmptyStr(max_tokens) \/ EqZero(max_tokens)
             THEN default
             ELSE LET f == PyFloat(max_tokens)
                      n == IF f.exc = "none" THEN PyIntOfFloat(f.val) ELSE f
                  IN  IF n.exc \in CaughtByValidate THEN default
                      ELSE IF n.exc # "none" THEN Raise(n.exc)
                      ELSE IF n.val.i < 1 THEN default
                      ELSE Ok(SetItem(data, "max_tokens", n.val))

(* ------------------- the specifications' common parts ------------------ *)
\* the request handler is not running
ProxyIdle ==
    /\ request = None
    /\ sent = <<>>
    /\ backend = None
    /\ replies = <<>>
    /\ raised = <<>>

\* a normalizer is about to be called with an argument drawn from inputs
CallInit(inputs) ==
    /\ pc = "call"
    /\ arg \in inputs
    /\ ret = None
    /\ exc = "none"
    /\ ProxyIdle

\* the call returns r.val or raises r.exc
Return(r) ==
    /\ pc = "call"
    /\ pc' = "done"
    /\ ret' = r.val
    /\ exc' = r.exc
    /\ UNCHANGED <<arg, request, sent, backend, replies, raised>>

(* ------------------ validate_max_tokens on request bodies -------------- *)
MaxTokensAlphabet == {"-", ".", "0", "7", "9", "a"}

MaxTokensValues ==
    {None, Bool(TRUE), Bool(FALSE), List(<<>>), List(<<Int_(7)>>), Dict(<<>>)}
    \cup {Int_(n) : n \in {-5, -1, 0, 1, 7, 4096}}
    \cup {Float("fin", m, 1) : m \in {0, 4, -4, 9, 10, 79, -79}}
    \cup {Float("inf", 0, 0), Float("-inf", 0, 0), Float("nan", 0, 0)}
    \cup {Str(s) : s \in Strings(MaxTokensAlphabet, MaxStrLen)}
    \cup {Str(<<"a","b","c">>), Str(<<"i","n","f">>), Str(<<"n","a","n">>),
          Str(<<" ","7",".","9","\n">>), Str(<<"-","I","n","f">>)}

ModelField == <<"model", Str(<<"g","p","t">>)>>

MaxTokensBodies ==
    {Dict(<<>>), Dict(<<ModelField>>)}
    \cup {Dict(<<<<"max_tokens", x>>>>) : x \in MaxTokensValues}
    \cup {Dict(<<ModelField, <<"max_tokens", x>>>>) : x \in MaxTokensValues}

InitMaxTokens == CallInit(MaxTokensBodies)

CallValidateMaxTokens == Return(validate_max_tokens(arg))

NextMaxTokens == CallValidateMaxTokens

SpecMaxTokens == InitMaxTokens /\ [][NextMaxTokens]_vars

\* the max_tokens field of the request body the validator was called with
GivenMaxTokens == Get(arg, "max_tokens", None)

\* C2: for every request body that is a mapping, the validator returns
\* without raising and leaves a max_tokens field that is an integer >= 1:
\* 1024 when the field was absent, null, "", zero, not numerically coercible
\* or truncating below 1 ("abc", -5, 0.4), the truncated input otherwise
\* ("7.9" gives 7, an integer >= 1 is kept).
C2_MaxTokensPositiveInteger ==
    (pc = "done" /\ IsDict(arg)) =>
        /\ exc = "none"
        /\ IsDict(ret)
        /\ HasKey(ret, "max_tokens")
        /\ Item(ret, "max_tokens").t = "int"
        /\ Item(ret, "max_tokens").i >= 1
        /\ (\/ ~HasKey(arg, "max_tokens")
            \/ GivenMaxTokens \in {None, Str(<<>>), Int_(0), Int_(-5), Float("fin", 4, 1),
                                   Str(<<"a","b","c">>)})
              => Item(ret, "max_tokens").i = DEFAULT_MAX_TOKENS
        /\ GivenMaxTokens = Str(<<"7",".","9">>) => Item(ret, "max_tokens").i = 7
        /\ (GivenMaxTokens.t = "int" /\ GivenMaxTokens.i >= 1)
              => Item(ret, "max_tokens") = GivenMaxTokens

(* -------------------------- transform_tool_choice ---------------------- *)
S_none == Str(<<"n","o","n","e">>)
S_auto == Str(<<"a","u","t","o">>)
S_required == Str(<<"r","e","q","u","i","r","e","d">>)
ChoiceLiterals == {S_none, S_auto, S_required}

\* a plausible slip: the mapping's type is returned without the membership test
transform_tool_choice_unchecked(tool_choice) ==
    CASE tool_choice.t = "null" -> None
      [] tool_choice.t = "str" -> tool_choice
      [] tool_choice.t = "dict" -> Get(tool_choice, "type", S_auto)
      [] OTHER -> S_auto

\* transform_tool_choice(tool_choice)
transform_tool_choice(tool_choice) ==
    CASE tool_choice.t = "null" -> None
      [] tool_choice.t = "str" -> tool_choice
      [] tool_choice.t = "dict" ->
            LET choice_type == Get(tool_choice, "type", None)
            IN  IF choice_type \in ChoiceLiterals THEN choice_type ELSE S_auto
      [] OTHER -> S_auto

S_any == Str(<<"a","n","y">>)
S_tool == Str(<<"t","o","o","l">>)
S_function == Str(<<"f","u","n","c","t","i","o","n">>)
S_search == Str(<<"s","e","a","r","c","h">>)

ChoiceTypes ==
    ChoiceLiterals
    \cup {S_any, S_tool, S_function, Str(<<>>), Str(<<"A","U","T","O">>), None,
          Int_(0), Int_(1), Bool(TRUE), List(<<S_auto>>), Dict(<<<<"type", S_auto>>>>)}

ToolChoiceInputs ==
    {None, Int_(0), Int_(2), Bool(TRUE), Bool(FALSE), Float("fin", 15, 1),
     List(<<>>), List(<<S_auto>>), Dict(<<>>),
     Dict(<<<<"name", S_search>>>>),
     Dict(<<<<"function", Dict(<<<<"name", S_search>>>>)>>>>)}
    \cup ChoiceLiterals
    \cup {S_any, S_tool, S_function, Str(<<>>), Str(<<"A","U","T","O">>),
          Str(<<"a","u","t","o"," ">>)}
    \cup {Dict(<<<<"type", x>>>>) : x \in ChoiceTypes}
    \cup {Dict(<<<<"type", x>>, <<"name", S_search>>>>) : x \in ChoiceTypes}
    \cup {Dict(<<<<"disable_parallel_tool_use", Bool(TRUE)>>, <<"type", x>>>>) :
              x \in ChoiceTypes}

InitToolChoice == CallInit(ToolChoiceInputs)

CallTransformToolChoice == Return(Ok(transform_tool_choice(arg)))

NextToolChoice == CallTransformToolChoice

SpecToolChoice == InitToolChoice /\ [][NextToolChoice]_vars

\* a mapping whose type is one of the three literals
HasLiteralType(x) == IsDict(x) /\ HasKey(x, "type") /\ Item(x, "type") \in ChoiceLiterals

\* the inputs the claim excepts: null, the three literals, and the mappings
\* whose type is one of the three literals
Recognized(x) == x = None \/ x \in ChoiceLiterals \/ HasLiteralType(x)

\* C3 as stated: every tool_choice outside the recognized set, any other
\* string included, is normalized to exactly "auto", so the result is always
\* null or one of "none", "auto", "required".
C3_UnrecognizedGivesAuto ==
    pc = "done" =>
        /\ exc = "none"
        /\ ~Recognized(arg) => ret = S_auto
        /\ ret \in {None} \cup ChoiceLiterals

\* C3, as the code has it: a string is returned unchanged, whatever it is; every input
\* that is neither null, nor a string, nor a mapping whose type is one of the
\* three literals is normalized to exactly "auto"; a mapping whose type is one
\* of the literals gives that literal; so the result is null, one of the
\* three literals, or the input string itself.
C3_NonStringUnrecognizedGivesAuto ==
    pc = "done" =>
        /\ exc = "none"
        /\ IsStr(arg) => ret = arg
        /\ arg = None <=> ret = None
        /\ HasLiteralType(arg) => ret = Item(arg, "type")
        /\ (arg # None /\ ~IsStr(arg) /\ ~HasLiteralType(arg)) => ret = S_auto
        /\ ret \in {None} \cup ChoiceLiterals \cup {x \in {arg} : IsStr(x)}

\* a mapping of unrecognized type has been normalized to "auto"
C3_Witness ==
    /\ pc = "done"
    /\ arg = Dict(<<<<"type", S_function>>, <<"name", S_search>>>>)
    /\ ret = S_auto

(* ----------------------------- transform_tools ------------------------- *)
S_object == Str(<<"o","b","j","e","c","t">>)
S_unknown_function ==
    Str(<<"u","n","k","n","o","w","n","_","f","u","n","c","t","i","o","n">>)
S_empty == Str(<<>>)

\* a or b
PyOr(a, b) == IF Truthy(a) THEN a ELSE b

\* a plausible slip: the bare name/description shape does not look into custom
ToolShape_no_custom(tool) ==
    IF HasKey(tool, "function")
    THEN LET func == Item(tool, "function")
         IN  IF ~IsDict(func) THEN Raise("AttributeError")
             ELSE Ok(<<Get(func, "name", S_unknown_function),
                       Get(func, "description", S_empty),
                       PyOr(Get(func, "parameters", None), Get(func, "input_schema", None))>>)
    ELSE IF HasKey(tool, "input_schema")
    THEN Ok(<<Get(tool, "name", S_unknown_function), Get(tool, "description", S_empty),
              Get(tool, "input_schema", None)>>)
    ELSE IF HasKey(tool, "parameters")
    THEN Ok(<<Get(tool, "name", S_unknown_function), Get(tool, "description", S_empty),
              Get(tool, "parameters", None)>>)
    ELSE IF HasKey(tool, "name") \/ HasKey(tool, "description")
    THEN Ok(<<Get(tool, "name", S_unknown_function), Get(tool, "description", S_empty), None>>)
    ELSE Ok(<<S_unknown_function, S_empty, None>>)

\* the shape dispatch of transform_tools on a mapping: <<name, description,
\* schema>> as read from the shape-specific places, schema None when not found
ToolShape(tool) ==
    IF HasKey(tool, "function")
    THEN LET func == Item(tool, "function")
         IN  \* func.get on a value that is no mapping
             IF ~IsDict(func) THEN Raise("AttributeError")
             ELSE Ok(<<Get(func, "name", S_unknown_function),
                       Get(func, "description", S_empty),
                       PyOr(Get(func, "parameters", None), Get(func, "input_schema", None))>>)
    ELSE IF HasKey(tool, "input_schema")
    THEN Ok(<<Get(tool, "name", S_unknown_function), Get(tool, "description", S_empty),
              Get(tool, "input_schema", None)>>)
    ELSE IF HasKey(tool, "parameters")
    THEN Ok(<<Get(tool, "name", S_unknown_function), Get(tool, "description", S_empty),
              Get(tool, "parameters", None)>>)
    ELSE IF HasKey(tool, "name") \/ HasKey(tool, "description")
    THEN Ok(<<Get(tool, "name", S_unknown_function), Get(tool, "description", S_empty),
              IF HasKey(tool, "custom") /\ IsDict(Item(tool, "custom"))
              THEN Get(Item(tool, "custom"), "input_schema", None)
              ELSE None>>)
    ELSE Ok(<<S_unknown_function, S_empty, None>>)

\* the schema completion of transform_tools
CompleteSchema(schema) ==
    LET s0 == IF ~IsDict(schema)
              THEN Dict(<<<<"type", S_object>>, <<"properties", Dict(<<>>)>>>>)
              ELSE schema
        s1 == IF ~HasKey(s0, "type") THEN SetItem(s0, "type", S_object) ELSE s0
    IN  IF ~HasKey(s1, "properties") THEN SetItem(s1, "properties", Dict(<<>>)) ELSE s1

\* the loop body of transform_tools for one entry
TransformTool(tool) ==
    IF ~IsDict(tool) THEN Ok(tool)
    ELSE LET shape == ToolShape(tool)
         IN  IF shape.exc # "none" THEN Raise(shape.exc)
             ELSE Ok(Dict(<<
                    <<"type", S_function>>,
                    <<"function", Dict(<<<<"name", shape.val[1]>>,
                                         <<"description", shape.val[2]>>,
                                         <<"parameters", CompleteSchema(shape.val[3])>>>>)>>
                  >>))

\* the loop of transform_tools: the first entry that raises ends the call
RECURSIVE TransformEach(_, _)
TransformEach(todo, transformed) ==
    IF todo = <<>> THEN Ok(List(transformed))
    ELSE LET r == TransformTool(Head(todo))
         IN  IF r.exc # "none" THEN Raise(r.exc)
             ELSE TransformEach(Tail(todo), Append(transformed, r.val))

\* transform_tools(tools), tools None or a list
transform_tools(tools) ==
    IF ~Truthy(tools) THEN Ok(tools) ELSE TransformEach(tools.l, <<>>)

(* --------------------- transform_tools on tool lists ------------------- *)
S_string == Str(<<"s","t","r","i","n","g">>)
S_find == Str(<<"f","i","n","d">>)
S_q == Str(<<"q">>)
QProperty == Dict(<<<<"q", Dict(<<<<"type", S_string>>>>)>>>>)

ToolNames == {S_search, S_empty, Int_(3), None}
ToolDescriptions == {S_find, S_empty}

\* object schemas: empty, without type, without properties, complete
ObjectSchemas ==
    {Dict(<<>>),
     Dict(<<<<"type", S_object>>>>),
     Dict(<<<<"properties", QProperty>>>>),
     Dict(<<<<"required", List(<<S_q>>)>>>>),
     Dict(<<<<"type", S_string>>>>),
     Dict(<<<<"properties", Dict(<<>>)>>, <<"type", S_object>>>>),
     Dict(<<<<"type", S_object>>, <<"properties", QProperty>>,
            <<"required", List(<<S_q>>)>>>>)}

\* the four accepted declarations of one logical tool
FourShapes(name, description, schema) ==
    List(<<
      Dict(<<<<"function", Dict(<<<<"name", name>>, <<"description", description>>,
                                  <<"parameters", schema>>>>)>>>>),
      Dict(<<<<"name", name>>, <<"description", description>>, <<"input_schema", schema>>>>),
      Dict(<<<<"name", name>>, <<"description", description>>, <<"parameters", schema>>>>),
      Dict(<<<<"name", name>>, <<"description", description>>,
             <<"custom", Dict(<<<<"input_schema", schema>>>>)>>>>)
    >>)

ShapeLists ==
    {FourShapes(n, d, sch) : n \in ToolNames, d \in ToolDescriptions, sch \in ObjectSchemas}

\* entries of every kind: non-mappings, and mappings whose fields hold values
\* of the expected and of unexpected types
ToolPool ==
    {S_search, Int_(5), None, List(<<>>), Dict(<<>>),
     Dict(<<<<"type", S_function>>>>),
     Dict(<<<<"function", S_search>>>>),
     Dict(<<<<"function", None>>>>),
     Dict(<<<<"function", List(<<S_search>>)>>>>),
     Dict(<<<<"function", Dict(<<>>)>>>>),
     Dict(<<<<"function", Dict(<<<<"name", S_search>>, <<"parameters", Int_(5)>>>>)>>>>),
     Dict(<<<<"function", Dict(<<<<"input_schema", Dict(<<<<"properties", QProperty>>>>)>>>>)>>,
            <<"name", S_find>>>>),
     Dict(<<<<"input_schema", Int_(5)>>, <<"name", S_search>>>>),
     Dict(<<<<"input_schema", None>>>>),
     Dict(<<<<"parameters", List(<<S_q>>)>>, <<"description", Int_(3)>>>>),
     Dict(<<<<"name", S_search>>>>),
     Dict(<<<<"description", S_find>>>>),
     Dict(<<<<"name", Int_(3)>>, <<"custom", S_search>>>>),
     Dict(<<<<"name", S_search>>, <<"custom", Dict(<<>>)>>>>),
     Dict(<<<<"name", S_search>>,
            <<"custom", Dict(<<<<"input_schema", Dict(<<<<"required", List(<<S_q>>)>>>>)>>>>)>>>>),
     Dict(<<<<"custom", Dict(<<<<"input_schema", Dict(<<<<"properties", QProperty>>>>)>>>>)>>>>)}

ToolLists == {List(xs) : xs \in Strings(ToolPool, MaxTools)}

InitTools == CallInit({None} \cup ShapeLists \cup ToolLists)

CallTransformTools == Return(transform_tools(arg))

NextTools == CallTransformTools

SpecTools == InitTools /\ [][NextTools]_vars

\* x is {type: "function", function: {name, description, parameters}} with
\* parameters a mapping
IsCanonicalTool(x) ==
    /\ IsDict(x)
    /\ Keys(x) = {"type", "function"}
    /\ Item(x, "type") = S_function
    /\ IsDict(Item(x, "function"))
    /\ Keys(Item(x, "function")) = {"name", "description", "parameters"}
    /\ IsDict(Item(Item(x, "function"), "parameters"))

Parameters(x) == Item(Item(x, "function"), "parameters")

\* p is the schema sch with type "object" and properties {} supplied where
\* sch lacks them, and nothing else changed
CompletedFrom(p, sch) ==
    /\ Keys(p) = Keys(sch) \cup {"type", "properties"}
    /\ \A k \in Keys(sch) : Item(p, k) = Item(sch, k)
    /\ ~HasKey(sch, "type") => Item(p, "type") = S_object
    /\ ~HasKey(sch, "properties") => Item(p, "properties") = Dict(<<>>)

\* C4: the four declarations of one logical tool (name, description, object
\* schema) all normalize to the identical canonical tool {type: "function",
\* function: {name, description, parameters}}, parameters being the schema
\* with type and properties supplied where missing.
C4_ShapeInvariance ==
    \A n \in ToolNames, d \in ToolDescriptions, sch \in ObjectSchemas :
        (pc = "done" /\ arg = FourShapes(n, d, sch)) =>
            /\ exc = "none"
            /\ IsList(ret)
            /\ Len(ret.l) = 4
            /\ \A i \in 1..4 :
                  /\ PyEq(ret.l[i], ret.l[1])
                  /\ IsCanonicalTool(ret.l[i])
                  /\ Item(Item(ret.l[i], "function"), "name") = n
                  /\ Item(Item(ret.l[i], "function"), "description") = d
                  /\ CompletedFrom(Parameters(ret.l[i]), sch)

\* the four declarations of a tool whose schema lacks type and properties
\* have been normalized
C4_Witness ==
    /\ pc = "done"
    /\ arg = FourShapes(S_search, S_find, Dict(<<<<"required", List(<<S_q>>)>>>>))
    /\ exc = "none"
    /\ Len(ret.l) = 4

\* C5: for every tools sequence transform_tools returns without raising a
\* sequence of the same length and order, every non-mapping entry unchanged
\* and every mapping entry canonical with parameters holding both a type and
\* a properties key.
C5_TotalAndParametersComplete ==
    (pc = "done" /\ IsList(arg)) =>
        /\ exc = "none"
        /\ IsList(ret)
        /\ Len(ret.l) = Len(arg.l)
        /\ \A i \in 1..Len(arg.l) :
              IF IsDict(arg.l[i])
              THEN /\ IsCanonicalTool(ret.l[i])
                   /\ {"type", "properties"} \subseteq Keys(Parameters(ret.l[i]))
              ELSE ret.l[i] = arg.l[i]

(* -------------------------- json.dumps and str ------------------------- *)
\* the characters of a dict key (the keys of the model's vocabulary)
KeyChars(k) ==
    CASE k = "type" -> <<"t","y","p","e">>
      [] k = "text" -> <<"t","e","x","t">>
      [] k = "id" -> <<"i","d">>
      [] k = "name" -> <<"n","a","m","e">>
      [] k = "input" -> <<"i","n","p","u","t">>
      [] k = "role" -> <<"r","o","l","e">>
      [] k = "content" -> <<"c","o","n","t","e","n","t">>
      [] k = "q" -> <<"q">>
      [] k = "n" -> <<"n">>
      [] k = "source" -> <<"s","o","u","r","c","e">>
      [] k = "function" -> <<"f","u","n","c","t","i","o","n">>
      [] k = "arguments" -> <<"a","r","g","u","m","e","n","t","s">>
      [] k = "tool_calls" -> <<"t","o","o","l","_","c","a","l","l","s">>
      [] k = "description" -> <<"d","e","s","c","r","i","p","t","i","o","n">>
      [] k = "parameters" -> <<"p","a","r","a","m","e","t","e","r","s">>
      [] k = "input_schema" -> <<"i","n","p","u","t","_","s","c","h","e","m","a">>
      [] k = "properties" -> <<"p","r","o","p","e","r","t","i","e","s">>
      [] k = "required" -> <<"r","e","q","u","i","r","e","d">>
      [] k = "custom" -> <<"c","u","s","t","o","m">>
      [] k = "model" -> <<"m","o","d","e","l">>
      [] k = "max_tokens" -> <<"m","a","x","_","t","o","k","e","n","s">>
      [] k = "stream" -> <<"s","t","r","e","a","m">>
      [] k = "messages" -> <<"m","e","s","s","a","g","e","s">>
      [] k = "tools" -> <<"t","o","o","l","s">>
      [] k = "tool_choice" -> <<"t","o","o","l","_","c","h","o","i","c","e">>
      [] k = "data" -> <<"d","a","t","a">>
      [] k = "object" -> <<"o","b","j","e","c","t">>
      [] k = "error" -> <<"e","r","r","o","r">>

EscapeChar(c) ==
    CASE c = "\"" -> <<"\\", "\"">>
      [] c = "\\" -> <<"\\", "\\">>
      [] c = "\n" -> <<"\\", "n">>
      [] c = "\r" -> <<"\\", "r">>
      [] c = "\t" -> <<"\\", "t">>
      [] OTHER -> <<c>>

\* a JSON string literal (ASCII text)
JsonQuote(s) == <<"\"">> \o Concat([i \in 1..Len(s) |-> EscapeChar(s[i])]) \o <<"\"">>

Spaces(n) == [i \in 1..n |-> " "]

\* json.dumps(x, indent=indent) at nesting depth level; indent < 0 stands for
\* indent=None, the compact form with ", " and ": "
RECURSIVE Dumps(_, _, _)
Dumps(x, indent, level) ==
    LET nl == IF indent < 0 THEN <<>> ELSE <<"\n">> \o Spaces(indent * (level + 1))
        close == IF indent < 0 THEN <<>> ELSE <<"\n">> \o Spaces(indent * level)
        sep == IF indent < 0 THEN <<",", " ">> ELSE <<",">> \o nl
    IN  CASE x.t = "null" -> <<"n","u","l","l">>
          [] x.t = "bool" -> IF x.b THEN <<"t","r","u","e">> ELSE <<"f","a","l","s","e">>
          [] x.t = "int" -> IntToStr(x.i)
          [] x.t = "str" -> JsonQuote(x.s)
          [] x.t = "list" ->
                IF x.l = <<>> THEN <<"[", "]">>
                ELSE <<"[">> \o nl
                     \o Join(sep, [i \in 1..Len(x.l) |-> Dumps(x.l[i], indent, level + 1)])
                     \o close \o <<"]">>
          [] x.t = "dict" ->
                IF x.d = <<>> THEN <<"{", "}">>
                ELSE <<"{">> \o nl
                     \o Join(sep, [i \in 1..Len(x.d) |->
                            JsonQuote(KeyChars(x.d[i][1])) \o <<":", " ">>
                            \o Dumps(x.d[i][2], indent, level + 1)])
                     \o close \o <<"}">>

\* json.dumps(x)
JsonDumps(x) == Dumps(x, -1, 0)

\* repr of a str without quotes or backslashes in it
ReprQuote(s) ==
    <<"'">> \o Concat([i \in 1..Len(s) |->
                 IF s[i] = "\n" THEN <<"\\", "n">> ELSE <<s[i]>>]) \o <<"'">>

\* repr(x)
RECURSIVE PyRepr(_)
PyRepr(x) ==
    CASE x.t = "null" -> <<"N","o","n","e">>
      [] x.t = "bool" -> IF x.b THEN <<"T","r","u","e">> ELSE <<"F","a","l","s","e">>
      [] x.t = "int" -> IntToStr(x.i)
      [] x.t = "str" -> ReprQuote(x.s)
      [] x.t = "list" ->
            <<"[">> \o Join(<<",", " ">>, [i \in 1..Len(x.l) |-> PyRepr(x.l[i])]) \o <<"]">>
      [] x.t = "dict" ->
            <<"{">> \o Join(<<",", " ">>, [i \in 1..Len(x.d) |->
                           ReprQuote(KeyChars(x.d[i][1])) \o <<":", " ">> \o PyRepr(x.d[i][2])])
            \o <<"}">>

\* str(x)
PyStr(x) == IF IsStr(x) THEN x.s ELSE PyRepr(x)

\* sep.join(parts) on a list of values: a part that is no str is a TypeError
JoinValues(sep, parts) ==
    IF \E i \in 1..Len(parts) : ~IsStr(parts[i]) THEN Raise("TypeError")
    ELSE Ok(Str(Join(sep, [i \in 1..Len(parts) |-> parts[i].s])))

(* ---------------------- transform_tool_use_to_text --------------------- *)
S_tool_use == Str(<<"t","o","o","l","_","u","s","e">>)
S_text == Str(<<"t","e","x","t">>)
S_unknown_tool == Str(<<"u","n","k","n","o","w","n","_","t","o","o","l">>)

\* the part transform_tool_use_to_text appends for one item of a content list
TextPart(item) ==
    IF IsDict(item)
    THEN IF Get(item, "type", None) = S_tool_use
         THEN Str(<<"[","T","o","o","l"," ","U","s","e",":"," ">> \o PyStr(Get(item, "name", S_unknown_tool))
                  \o <<" ","(","i","d",":"," ">> \o PyStr(Get(item, "id", S_empty))
                  \o <<")","\n","I","n","p","u","t",":"," ">> \o Dumps(Get(item, "input", Dict(<<>>)), 2, 0)
                  \o <<"]">>)
         ELSE IF Get(item, "type", None) = S_text
         THEN Get(item, "text", S_empty)
         ELSE Str(JsonDumps(item))
    ELSE Str(PyStr(item))

\* transform_tool_use_to_text(content)
transform_tool_use_to_text(content) ==
    IF IsStr(content) THEN Ok(content)
    ELSE IF IsList(content)
    THEN JoinValues(<<"\n", "\n">>, [i \in 1..Len(content.l) |-> TextPart(content.l[i])])
    ELSE Ok(Str(PyStr(content)))

\* the loop of transform_messages: msg.copy() needs a mapping
RECURSIVE TransformMessagesLoop(_, _)
TransformMessagesLoop(todo, transformed) ==
    IF todo = <<>> THEN Ok(List(transformed))
    ELSE LET msg == Head(todo)
         IN  IF ~IsDict(msg) THEN Raise("AttributeError")
             ELSE IF ~HasKey(msg, "content")
             THEN TransformMessagesLoop(Tail(todo), Append(transformed, msg))
             ELSE LET c == transform_tool_use_to_text(Item(msg, "content"))
                  IN  IF c.exc # "none" THEN Raise(c.exc)
                      ELSE TransformMessagesLoop(Tail(todo),
                               Append(transformed, SetItem(msg, "content", c.val)))

\* transform_messages(messages)
transform_messages(messages) == TransformMessagesLoop(messages.l, <<>>)

(* --------------------- transform_message_to_openai --------------------- *)
\* the local variable item before the inner loop has bound it
Unbound == [t |-> "unbound"]

\* the else branch of transform_message_to_openai: str(item), item being the
\* inner loop's variable, left over from an earlier message or never bound
NonListMessage(msg, item) ==
    IF item = Unbound THEN Raise("UnboundLocalError") ELSE Ok(Str(PyStr(item)))

\* the inner loop over the items of a content list; val is
\* <<new_content, tool_calls>>
RECURSIVE ContentLoop(_, _, _)
ContentLoop(todo, new_content, tool_calls) ==
    IF todo = <<>> THEN Ok(<<new_content, tool_calls>>)
    ELSE LET item == Head(todo)
         IN  IF ~IsDict(item) THEN ContentLoop(Tail(todo), new_content, tool_calls)
             ELSE IF ~HasKey(item, "type") THEN Raise("KeyError")
             ELSE IF Item(item, "type") = S_text
             THEN IF ~HasKey(item, "text") THEN Raise("KeyError")
                  ELSE ContentLoop(Tail(todo), Append(new_content, Item(item, "text")),
                                   tool_calls)
             ELSE IF Item(item, "type") = S_tool_use
             THEN IF ~({"id", "name", "input"} \subseteq Keys(item)) THEN Raise("KeyError")
                  ELSE ContentLoop(Tail(todo), new_content,
                           Append(tool_calls,
                               Dict(<<<<"id", Item(item, "id")>>,
                                      <<"type", S_function>>,
                                      <<"function",
                                        Dict(<<<<"name", Item(item, "name")>>,
                                               <<"arguments",
                                                 Str(JsonDumps(Item(item, "input")))>>>>)>>
                                    >>)))
             ELSE ContentLoop(Tail(todo), Append(new_content, Str(JsonDumps(item))),
                              tool_calls)

\* the body of the outer loop for a message whose content is a list
ListMessage(msg) ==
    LET parts == ContentLoop(Item(msg, "content").l, <<>>, <<>>)
    IN  IF parts.exc # "none" THEN Raise(parts.exc)
        ELSE IF ~HasKey(msg, "role") THEN Raise("KeyError")
        ELSE LET joined == JoinValues(<<"\n">>, parts.val[1])
                 res == Dict(<<<<"role", Item(msg, "role")>>, <<"content", joined.val>>>>)
             IN  IF joined.exc # "none" THEN Raise(joined.exc)
                 ELSE IF parts.val[2] # <<>>
                 THEN Ok(SetItem(res, "tool_calls", List(parts.val[2])))
                 ELSE Ok(res)

\* the outer loop; item is the inner loop's variable as the last list message
\* left it (an empty content list leaves it as it was)
RECURSIVE OpenaiLoop(_, _, _)
OpenaiLoop(todo, transformed, item) ==
    IF todo = <<>> THEN Ok(List(transformed))
    ELSE LET msg == Head(todo)
         IN  IF ~IsDict(msg) THEN Raise("AttributeError")
             ELSE LET isList == IsList(Get(msg, "content", None))
                      r == IF isList THEN ListMessage(msg) ELSE NonListMessage(msg, item)
                      content == Item(msg, "content").l
                  IN  IF r.exc # "none" THEN Raise(r.exc)
                      ELSE OpenaiLoop(Tail(todo), Append(transformed, r.val),
                               IF isList /\ content # <<>> THEN content[Len(content)]
                               ELSE item)

\* transform_message_to_openai(messages)
transform_message_to_openai(messages) == OpenaiLoop(messages.l, <<>>, Unbound)

(* ------------------ the message transforms on conversations ------------ *)
S_user == Str(<<"u","s","e","r">>)
S_assistant == Str(<<"a","s","s","i","s","t","a","n","t">>)
S_hi == Str(<<"h","i">>)
S_ok == Str(<<"o","k">>)
S_t1 == Str(<<"t","1">>)
S_t2 == Str(<<"t","2">>)
S_x == Str(<<"x">>)

\* the input objects of the generated tool_use blocks
ToolInputs ==
    {Dict(<<>>), Dict(<<<<"q", S_x>>>>), Dict(<<<<"q", S_x>>, <<"n", Int_(-12)>>>>),
     Dict(<<<<"q", List(<<S_x, None, Bool(TRUE)>>)>>>>), List(<<>>), Str(<<"x","\"","\n">>)}

ToolUseBlocks ==
    {Dict(<<<<"type", S_tool_use>>, <<"id", S_t1>>, <<"name", S_search>>,
            <<"input", Dict(<<<<"q", S_x>>, <<"n", Int_(-12)>>>>)>>>>),
     Dict(<<<<"type", S_tool_use>>, <<"id", S_t2>>, <<"name", S_find>>,
            <<"input", Dict(<<<<"q", List(<<S_x, None, Bool(TRUE)>>)>>>>)>>>>),
     Dict(<<<<"type", S_tool_use>>, <<"id", S_t2>>, <<"name", S_find>>,
            <<"input", Dict(<<>>)>>>>)}

\* text, tool_use, unknown type, no type, fields missing or of another type,
\* and items that are no mapping
ContentBlocks ==
    ToolUseBlocks
    \cup {Dict(<<<<"type", S_text>>, <<"text", S_hi>>>>),
          Dict(<<<<"type", S_text>>, <<"text", S_ok>>>>),
          Dict(<<<<"type", Str(<<"i","m","a","g","e">>)>>, <<"source", S_x>>>>),
          Dict(<<<<"text", S_hi>>>>),
          Dict(<<>>),
          Dict(<<<<"type", S_text>>>>),
          Dict(<<<<"type", S_text>>, <<"text", Int_(5)>>>>),
          Dict(<<<<"type", S_tool_use>>, <<"name", S_search>>, <<"input", Dict(<<>>)>>>>),
          S_ok,
          Int_(3)}

ContentLists == {List(xs) : xs \in Strings(ContentBlocks, MaxBlocks)}

Message(role, content) == Dict(<<<<"role", role>>, <<"content", content>>>>)

Messages ==
    {Message(S_user, c) : c \in ContentLists \cup {S_hi, S_empty, None}}
    \cup {Message(S_assistant, c) : c \in {S_ok} \cup {List(<<b>>) : b \in ToolUseBlocks}}
    \cup {Dict(<<<<"role", S_user>>>>), Dict(<<<<"content", S_hi>>>>),
          Dict(<<<<"content", List(<<>>)>>>>), S_hi}

Conversations == {List(ms) : ms \in Strings(Messages, MaxMessages)}

InitMessages == CallInit(Conversations)

\* the call returns r.val or raises r.exc; label tells the calls apart
ReturnAs(label, r) ==
    /\ pc = "call"
    /\ pc' = label
    /\ ret' = r.val
    /\ exc' = r.exc
    /\ UNCHANGED <<arg, request, sent, backend, replies, raised>>

\* the transform the proxy applies to the messages of a chat/completions body
CallTransformMessageToOpenai == ReturnAs("done", transform_message_to_openai(arg))

\* the text-collapse transform
CallTransformMessages == ReturnAs("done_text", transform_messages(arg))

NextMessages == CallTransformMessageToOpenai \/ CallTransformMessages

SpecMessages == InitMessages /\ [][NextMessages]_vars

HasStrContent(msg) == IsDict(msg) /\ HasKey(msg, "content") /\ IsStr(Item(msg, "content"))

\* C1: whichever message transform is applied, it returns without raising,
\* and every message whose content is a plain string appears in the output
\* at the same position as a message with the same role and exactly the same
\* content string, whatever precedes it.
C1_StringContentUnchanged ==
    (pc \in {"done", "done_text"} /\ \E i \in 1..Len(arg.l) : HasStrContent(arg.l[i])) =>
        /\ exc = "none"
        /\ IsList(ret)
        /\ Len(ret.l) = Len(arg.l)
        /\ \A i \in 1..Len(arg.l) :
              HasStrContent(arg.l[i]) =>
                  /\ IsDict(ret.l[i])
                  /\ HasKey(ret.l[i], "content")
                  /\ Item(ret.l[i], "content") = Item(arg.l[i], "content")
                  /\ HasKey(arg.l[i], "role") =>
                        /\ HasKey(ret.l[i], "role")
                        /\ Item(ret.l[i], "role") = Item(arg.l[i], "role")

HasListContent(msg) ==
    IsDict(msg) /\ HasKey(msg, "role") /\ HasKey(msg, "content") /\ IsList(Item(msg, "content"))

Blocks(msg) == SelectSeq(Item(msg, "content").l, IsDict)
IsToolUse(b) == Get(b, "type", None) = S_tool_use
IsText(b) == Get(b, "type", None) = S_text
IsNotToolUse(b) == ~IsToolUse(b)

\* what the policy puts into content for a block that is no tool_use block
ExpectedPart(b) == IF IsText(b) THEN Item(b, "text").s ELSE JsonDumps(b)

\* the JSON text s decodes to v: v is the one value that serializes to s
DecodesTo(s, v) == \A w \in ToolInputs : (JsonDumps(w) = s) <=> (w = v)

\* C9: under the structured tool-call policy no block shape makes the
\* transform raise, and a message with a content list becomes a message of
\* the same role whose content is the single-newline join, in order, of the
\* text of the text blocks and the JSON of the blocks of unknown or missing
\* type, and whose tool_calls lists, in order, one {id, type: "function",
\* function: {name, arguments}} per tool_use block, arguments decoding back
\* to the block's input; tool_calls is absent when there is no tool_use block.
C9_StructuredToolCalls ==
    (pc = "done" /\ \A i \in 1..Len(arg.l) : HasListContent(arg.l[i])) =>
        /\ exc = "none"
        /\ Len(ret.l) = Len(arg.l)
        /\ \A i \in 1..Len(arg.l) :
              LET msg == arg.l[i]
                  res == ret.l[i]
                  uses == SelectSeq(Blocks(msg), IsToolUse)
                  others == SelectSeq(Blocks(msg), IsNotToolUse)
              IN  /\ IsDict(res)
                  /\ Item(res, "role") = Item(msg, "role")
                  /\ Item(res, "content")
                        = Str(Join(<<"\n">>, [j \in 1..Len(others) |-> ExpectedPart(others[j])]))
                  /\ HasKey(res, "tool_calls") <=> uses # <<>>
                  /\ uses # <<>> =>
                        /\ Len(Item(res, "tool_calls").l) = Len(uses)
                        /\ \A j \in 1..Len(uses) :
                              LET call == Item(res, "tool_calls").l[j]
                              IN  /\ Keys(call) = {"id", "type", "function"}
                                  /\ Item(call, "id") = Item(uses[j], "id")
                                  /\ Item(call, "type") = S_function
                                  /\ Keys(Item(call, "function")) = {"name", "arguments"}
                                  /\ Item(Item(call, "function"), "name")
                                        = Item(uses[j], "name")
                                  /\ DecodesTo(Item(Item(call, "function"), "arguments").s,
                                               Item(uses[j], "input"))

(* ------------------------- inbound model-id mapping -------------------- *)
\* str(x).lower().replace(' ', '-').replace('--', '-')
NormalizeModelName(x) == Replace(Replace(Lower(PyStr(x)), <<" ">>, <<"-">>), <<"-", "-">>, <<"-">>)

\* the model rewrite of proxy on a chat/completions body that is a mapping
RewriteModel(data) ==
    IF Truthy(Get(data, "model", None))
       /\ NormalizeModelName(Get(data, "model", None)) = NormalizeModelName(Str(REWROTE_MODEL_ID))
    THEN SetItem(data, "model", Str(ORIGINAL_MODEL_ID))
    ELSE data

UpperChar(c) ==
    IF \E i \in 1..26 : LowerChars[i] = c
    THEN UpperChars[CHOOSE i \in 1..26 : LowerChars[i] = c]
    ELSE c

Capitalize(s) == IF s = <<>> THEN s ELSE <<UpperChar(s[1])>> \o Tail(s)

\* runs of 1..MaxRun spaces and hyphens
Separators == Strings({" ", "-"}, MaxRun) \ {<<>>}

\* the alias with its two hyphens replaced by runs of separators, in lower
\* case, capitalized and in upper case
AliasSpellings ==
    UNION {{w1 \o s1 \o w2 \o s2 \o <<"4", ".", "5">> : s1 \in Separators, s2 \in Separators} :
              <<w1, w2>> \in {<<<<"d","o">>, <<"o","p","u","s">>>>,
                              <<<<"D","o">>, <<"O","p","u","s">>>>,
                              <<<<"D","O">>, <<"O","P","U","S">>>>}}

ModelValues ==
    {Str(m) : m \in AliasSpellings}
    \cup {Str(ORIGINAL_MODEL_ID), Str(<<"g","p","t">>), Str(<<"d","o","-","o","p","u","s">>),
          Str(<<"d","o","-","o","p","u","s","-","4",".","5","-">>), S_empty, None, Int_(45)}

ModelBodies ==
    {Dict(<<<<"stream", Bool(FALSE)>>>>)}
    \cup {Dict(<<<<"model", m>>, <<"stream", Bool(FALSE)>>>>) : m \in ModelValues}

InitModelId == CallInit(ModelBodies)

CallRewriteModel == Return(Ok(RewriteModel(arg)))

NextModelId == CallRewriteModel

SpecModelId == InitModelId /\ [][NextModelId]_vars

\* every run of consecutive hyphens collapsed into one hyphen
RECURSIVE CollapseHyphens(_)
CollapseHyphens(s) ==
    IF Len(s) < 2 THEN s
    ELSE IF s[1] = "-" /\ s[2] = "-" THEN CollapseHyphens(Tail(s))
    ELSE <<s[1]>> \o CollapseHyphens(Tail(s))

\* the model string denotes the alias: lowercased, spaces replaced by
\* hyphens and every run of hyphens collapsed, it equals "do-opus-4.5"
DenotesAlias(m) ==
    IsStr(m) /\ CollapseHyphens(Replace(Lower(m.s), <<" ">>, <<"-">>)) = REWROTE_MODEL_ID

\* C6: a model string that denotes the alias ("Do-Opus-4.5", "do opus 4.5",
\* "do---opus-4.5") is replaced by the canonical backend id; every other
\* model value is forwarded as it came.
C6_InboundModelMapping ==
    pc = "done" =>
        /\ exc = "none"
        /\ HasKey(arg, "model") <=> HasKey(ret, "model")
        /\ HasKey(arg, "model") =>
              Item(ret, "model") = IF DenotesAlias(Item(arg, "model"))
                                   THEN Str(ORIGINAL_MODEL_ID)
                                   ELSE Item(arg, "model")

(* ------------------------------- proxy --------------------------------- *)
\* A request is [method, path, body]: path is what the route captures after
\* /v1/, body the result of request.get_json(), BadJson when it raises.
\* An outbound call is [method, path, json, stream].  What the call produces
\* is [kind |-> "error"] for a transport failure or [kind |-> "response",
\* status_code, content, json, chunks_fail]: content is the body's text, json
\* what response.json() returns for it (NotJson when it raises ValueError),
\* chunks_fail whether reading the streamed body fails.
\* A reply is [status, kind, error, content, json]: kind "error" is
\* jsonify({'error': error}), kind "json" is jsonify(json), kind "raw" and
\* kind "stream" relay content.  error names the message: the fixed text, or
\* the exception whose str() it is.
\* An entry of raised is [name, at]: the exception and the place it was
\* raised at.
BadJson == [t |-> "badjson"]
NotJson == [t |-> "notjson"]

CHAT_PATH == <<"c","h","a","t","/","c","o","m","p","l","e","t","i","o","n","s">>
MODELS_PATH == <<"m","o","d","e","l","s">>
EMPTY_MESSAGE == "Empty response from provider"

\* path.lstrip('/')
RECURSIVE LStripSlash(_)
LStripSlash(path) ==
    IF path # <<>> /\ Head(path) = "/" THEN LStripSlash(Tail(path)) ELSE path

\* jsonify({'error': message}), 500
ErrorReply(message) ==
    [status |-> 500, kind |-> "error", error |-> message, content |-> <<>>, json |-> None]

\* a plausible slip: the status is left out, so the error goes out as 200
TopLevelExcept_no_status(e) ==
    [status |-> 200, kind |-> "error", error |-> e, content |-> <<>>, json |-> None]

\* the except clauses that end proxy: jsonify({'error': str(e)}), 500
TopLevelExcept(e) == ErrorReply(e)

\* data[key] = result, or the exception that computing result raised
Assign(data, key, result) ==
    IF result.exc # "none" THEN Raise(result.exc) ELSE Ok(SetItem(data, key, result.val))

\* if data and 'messages' in data: data['messages'] = transform_message_to_openai(...)
MessagesStep(r) ==
    IF r.exc # "none" \/ ~HasKey(r.val, "messages") THEN r
    ELSE Assign(r.val, "messages", transform_message_to_openai(Item(r.val, "messages")))

\* if data and 'tool_choice' in data: data['tool_choice'] = transform_tool_choice(...)
ToolChoiceStep(r) ==
    IF r.exc # "none" \/ ~HasKey(r.val, "tool_choice") THEN r
    ELSE Assign(r.val, "tool_choice", Ok(transform_tool_choice(Item(r.val, "tool_choice"))))

\* if data and 'tools' in data: data['tools'] = transform_tools(...)
ToolsStep(r) ==
    IF r.exc # "none" \/ ~HasKey(r.val, "tools") THEN r
    ELSE Assign(r.val, "tools", transform_tools(Item(r.val, "tools")))

\* if data: validate_max_tokens(data)
MaxTokensStep(r) == IF r.exc # "none" THEN r ELSE validate_max_tokens(r.val)

\* the chat/completions block of proxy on the parsed body; the guards
\* "if data" fail for None and for an empty mapping, and data.get raises
\* for a body that is true and no mapping
NormalizeChat(data) ==
    IF ~Truthy(data) THEN Ok(data)
    ELSE IF ~IsDict(data) THEN Raise("AttributeError")
    ELSE MaxTokensStep(ToolsStep(ToolChoiceStep(MessagesStep(Ok(RewriteModel(data))))))

\* stream = data.get('stream', False) if data else False, and the POST call
PostCall(clean_path, data) ==
    IF data.exc # "none" THEN data
    ELSE IF ~Truthy(data.val)
    THEN Ok([method |-> "POST", path |-> clean_path, json |-> data.val, stream |-> FALSE])
    ELSE IF ~IsDict(data.val) THEN Raise("AttributeError")
    ELSE Ok([method |-> "POST", path |-> clean_path, json |-> data.val,
             stream |-> Truthy(Get(data.val, "stream", Bool(FALSE)))])

\* proxy up to the outbound call: val is the call to issue
PrepareCall(req) ==
    IF req.method = "GET"
    THEN Ok([method |-> "GET", path |-> LStripSlash(req.path), json |-> None,
             stream |-> FALSE])
    ELSE IF req.body = BadJson THEN Raise("BadRequest")
    ELSE PostCall(LStripSlash(req.path),
                  IF LStripSlash(req.path) = CHAT_PATH THEN NormalizeChat(req.body)
                  ELSE Ok(req.body))

\* the loop over models_data.get('data', []): val is the list of entries
\* after the rewrite
RECURSIVE RewriteEntries(_, _)
RewriteEntries(todo, done) ==
    IF todo = <<>> THEN Ok(List(done))
    ELSE LET model == Head(todo)
         IN  IF ~IsDict(model) THEN Raise("TypeError")
             ELSE IF ~HasKey(model, "id") THEN Raise("KeyError")
             ELSE RewriteEntries(Tail(todo),
                      Append(done, IF Item(model, "id") = Str(ORIGINAL_MODEL_ID)
                                   THEN SetItem(model, "id", Str(REWROTE_MODEL_ID))
                                   ELSE model))

\* the try block of the models listing: response.json(), the loop, and
\* models_data as jsonify gets it
RewriteListing(response) ==
    IF response.json = NotJson THEN Raise("ValueError")
    ELSE LET models_data == response.json
         IN  IF ~IsDict(models_data) THEN Raise("AttributeError")
             ELSE IF ~HasKey(models_data, "data") THEN Ok(models_data)
             ELSE LET data == Item(models_data, "data")
                  IN  \* iterating a str or a dict yields str items, which
                      \* model['id'] rejects; other values are not iterable
                      IF IsStr(data) \/ IsDict(data)
                      THEN IF Truthy(data) THEN Raise("TypeError") ELSE Ok(models_data)
                      ELSE IF ~IsList(data) THEN Raise("TypeError")
                      ELSE LET entries == RewriteEntries(data.l, <<>>)
                           IN  IF entries.exc # "none" THEN Raise(entries.exc)
                               ELSE Ok(SetItem(models_data, "data", entries.val))

\* the except clause of the models listing
CaughtByListing == {"ValueError", "KeyError"}

\* the test of the empty-body fault: len(response.content or []) == 0; the
\* test of response.text inside it is then always true
IsEmptyBody(response) == Len(response.content) = 0

\* proxy after the outbound call returned response: the reply and the
\* exceptions raised on the way.  The body of a streamed call is read after
\* the call returned: by response.json() for the models listing, by the
\* generator of the streamed relay, by response.content otherwise; only the
\* generator catches a failure of that read.
Respond(call, response) ==
    LET listing == RewriteListing(response)
        ok == response.status_code = 200
        readFails == call.stream /\ response.chunks_fail
        readError == [name |-> "ChunkedEncodingError", at |-> "read"]
        relay == [status |-> response.status_code,
                  kind |-> IF call.stream /\ ok THEN "stream" ELSE "raw",
                  error |-> "",
                  content |-> response.content,
                  json |-> None]
    IN  IF ~call.stream /\ ok /\ IsEmptyBody(response)
        THEN [reply |-> ErrorReply(EMPTY_MESSAGE), raised |-> <<>>]
        ELSE IF call.path = MODELS_PATH /\ ok
        THEN IF readFails
             THEN [reply |-> TopLevelExcept(readError.name), raised |-> <<readError>>]
             ELSE IF listing.exc = "none"
             THEN [reply |-> [status |-> 200, kind |-> "json", error |-> "",
                              content |-> <<>>, json |-> listing.val],
                   raised |-> <<>>]
             ELSE IF listing.exc \in CaughtByListing
             THEN [reply |-> relay, raised |-> <<[name |-> listing.exc, at |-> "models"]>>]
             ELSE [reply |-> TopLevelExcept(listing.exc),
                   raised |-> <<[name |-> listing.exc, at |-> "models"]>>]
        ELSE IF call.stream /\ ok
        THEN IF readFails
             THEN [reply |-> [relay EXCEPT !.content = <<>>],
                   raised |-> <<[name |-> readError.name, at |-> "generate"]>>]
             ELSE [reply |-> relay, raised |-> <<>>]
        ELSE IF readFails
        THEN [reply |-> TopLevelExcept(readError.name), raised |-> <<readError>>]
        ELSE [reply |-> relay, raised |-> <<>>]

(* --------------------------- requests handled -------------------------- *)
TextBlock == Dict(<<<<"type", S_text>>, <<"text", S_hi>>>>)

RequestBodies ==
    {BadJson, None, Dict(<<>>), List(<<Int_(1)>>),
     Dict(<<<<"model", Str(<<"g","p","t">>)>>>>),
     Dict(<<<<"model", Str(<<"D","o","-","O","p","u","s","-","4",".","5">>)>>,
            <<"messages", List(<<Message(S_user, List(<<TextBlock>>))>>)>>,
            <<"max_tokens", Str(<<"7",".","9">>)>>>>),
     Dict(<<<<"model", Str(<<"g","p","t">>)>>,
            <<"messages", List(<<Message(S_user, S_hi)>>)>>>>),
     Dict(<<<<"messages", List(<<Message(S_user, List(<<TextBlock>>))>>)>>,
            <<"stream", Bool(TRUE)>>>>),
     Dict(<<<<"messages", List(<<Message(S_user, List(<<Dict(<<<<"text", S_hi>>>>)>>))>>)>>>>),
     Dict(<<<<"tool_choice", Dict(<<<<"type", S_any>>>>)>>,
            <<"tools", List(<<Dict(<<<<"name", S_search>>,
                                     <<"input_schema", Dict(<<>>)>>>>)>>)>>>>),
     Dict(<<<<"tools", List(<<Dict(<<<<"function", None>>>>)>>)>>>>),
     Dict(<<<<"max_tokens", Str(<<"i","n","f">>)>>>>),
     Dict(<<<<"input", S_x>>, <<"stream", Bool(TRUE)>>>>)}

RequestPaths ==
    {CHAT_PATH, MODELS_PATH, <<"/">> \o MODELS_PATH,
     <<"e","m","b","e","d","d","i","n","g","s">>}

Requests ==
    {[method |-> "GET", path |-> p, body |-> None] : p \in RequestPaths}
    \cup {[method |-> "POST", path |-> p, body |-> b] : p \in RequestPaths, b \in RequestBodies}

ModelEntry(id) == Dict(<<<<"id", id>>, <<"object", Str(<<"m","o","d","e","l">>)>>>>)

\* entries with the canonical id, another id, the alias, an id that differs
\* from the canonical one in case, no id, an id that is no string, and
\* entries that are no mapping
ListingEntries ==
    {ModelEntry(Str(ORIGINAL_MODEL_ID)), ModelEntry(Str(<<"g","p","t">>)),
     ModelEntry(Str(REWROTE_MODEL_ID)), ModelEntry(Str(Capitalize(ORIGINAL_MODEL_ID))),
     ModelEntry(Int_(3)),
     Dict(<<<<"object", Str(<<"m","o","d","e","l">>)>>>>),
     Str(ORIGINAL_MODEL_ID), None}

Listing(data) == Dict(<<<<"object", Str(<<"l","i","s","t">>)>>, <<"data", data>>>>)

\* what a 200 body may decode to: listings, and JSON of other shapes
JsonBodies ==
    {Listing(List(es)) : es \in Strings(ListingEntries, MaxEntries)}
    \cup {Listing(None), Listing(Int_(1)), Listing(Str(ORIGINAL_MODEL_ID)), Listing(S_empty),
          Listing(Dict(<<<<"id", Str(ORIGINAL_MODEL_ID)>>>>)), Listing(Dict(<<>>)),
          Dict(<<>>), ModelEntry(Str(ORIGINAL_MODEL_ID)),
          List(<<ModelEntry(Str(ORIGINAL_MODEL_ID))>>), List(<<>>), None,
          Str(ORIGINAL_MODEL_ID), Int_(1)}

\* bodies that are no JSON: empty, whitespace only, text
TextBodies == {<<>>, <<" ">>, <<" ", "\n">>, <<"o","o","p","s">>, <<"{">>}

BackendBodies ==
    {[content |-> JsonDumps(j), json |-> j] : j \in JsonBodies}
    \cup {[content |-> c, json |-> NotJson] : c \in TextBodies}

StatusCodes == {200, 404, 500}

\* what the backend may answer to a call
Responses(call) ==
    {[kind |-> "response", status_code |-> st, content |-> b.content, json |-> b.json,
      chunks_fail |-> cf] :
        st \in StatusCodes, b \in BackendBodies,
        cf \in IF call.stream THEN BOOLEAN ELSE {FALSE}}

InitProxy ==
    /\ pc = "received"
    /\ request \in Requests
    /\ sent = <<>>
    /\ backend = None
    /\ replies = <<>>
    /\ raised = <<>>
    /\ arg = None
    /\ ret = None
    /\ exc = "none"

\* proxy from its entry to the outbound call, or to the reply when an
\* exception ends the handler before the call
ProxyForward ==
    /\ pc = "received"
    /\ \E call \in {PrepareCall(request)} :
           IF call.exc = "none"
           THEN /\ sent' = Append(sent, call.val)
                /\ pc' = "waiting"
                /\ UNCHANGED <<replies, raised>>
           ELSE /\ raised' = Append(raised, [name |-> call.exc, at |-> "prepare"])
                /\ replies' = Append(replies, TopLevelExcept(call.exc))
                /\ pc' = "responded"
                /\ UNCHANGED sent
    /\ UNCHANGED <<arg, ret, exc, request, backend>>

\* the outbound call raises a requests.exceptions.RequestException
ProxyTransportError ==
    /\ pc = "waiting"
    /\ backend' = [kind |-> "error"]
    /\ raised' = Append(raised, [name |-> "RequestException", at |-> "call"])
    /\ replies' = Append(replies, TopLevelExcept("RequestException"))
    /\ pc' = "responded"
    /\ UNCHANGED <<arg, ret, exc, request, sent>>

\* the outbound call returns a response and proxy answers the client
ProxyRespond ==
    /\ pc = "waiting"
    /\ \E response \in Responses(sent[1]) :
          \E r \in {Respond(sent[1], response)} :
              /\ backend' = response
              /\ replies' = Append(replies, r.reply)
              /\ raised' = raised \o r.raised
    /\ pc' = "responded"
    /\ UNCHANGED <<arg, ret, exc, request, sent>>

NextProxy == ProxyForward \/ ProxyTransportError \/ ProxyRespond

SpecProxy == InitProxy /\ [][NextProxy]_vars

(* ---------------------- properties of a handled request ---------------- *)
\* the request was answered after the backend returned a response
Answered == pc = "responded" /\ backend # None /\ backend.kind = "response"

\* the body of the answered call was read without a transport failure
BodyRead == ~(sent[1].stream /\ backend.chunks_fail)

\* a 200 body of no characters, or of whitespace only
BlankBody == backend.status_code = 200 /\ Strip(backend.content) = <<>>

\* C7: whenever the request is not streamed and the backend answers 200
\* with a zero-length or whitespace-only body, the reply is 500 with
\* {"error": "Empty response from provider"}, and a 200 body that has a
\* character other than whitespace is never turned into this fault.
C7_EmptyBodyFault ==
    (Answered /\ ~sent[1].stream /\ backend.status_code = 200) =>
        IF BlankBody THEN replies[1] = ErrorReply(EMPTY_MESSAGE)
        ELSE replies[1].error # EMPTY_MESSAGE

\* a listing of the expected shape: a mapping whose data is a list of
\* mappings that each have an id
IsListing(j) ==
    /\ j # NotJson
    /\ IsDict(j)
    /\ HasKey(j, "data")
    /\ IsList(Item(j, "data"))
    /\ \A i \in 1..Len(Item(j, "data").l) :
          IsDict(Item(j, "data").l[i]) /\ HasKey(Item(j, "data").l[i], "id")

\* out is the listing j with the canonical id replaced by the alias and
\* nothing else changed
IsRewriteOf(out, j) ==
    /\ IsDict(out)
    /\ Keys(out) = Keys(j)
    /\ \A i \in 1..Len(j.d) : j.d[i][1] # "data" => out.d[i] = j.d[i]
    /\ IsList(Item(out, "data"))
    /\ Len(Item(out, "data").l) = Len(Item(j, "data").l)
    /\ \A i \in 1..Len(Item(j, "data").l) :
          LET entry == Item(j, "data").l[i]
          IN  Item(out, "data").l[i] =
                  IF Item(entry, "id") = Str(ORIGINAL_MODEL_ID)
                  THEN SetItem(entry, "id", Str(REWROTE_MODEL_ID))
                  ELSE entry

\* the reply relays the backend's body and status
IsRelay(reply) ==
    /\ reply.kind \in {"raw", "stream"}
    /\ reply.status = backend.status_code
    /\ reply.content = backend.content

\* C8: on the models path with a 200 answer, a listing of the expected
\* shape is returned with exactly the canonical ids rewritten to the alias;
\* a body that cannot be processed as a listing is answered with the
\* backend's status and body instead of an error; for every other path or
\* status the body is relayed as received.  (The empty-body fault and a
\* failed read of the body are other claims' cases.)
C8_OutboundModelMapping ==
    (Answered /\ BodyRead /\ ~(~sent[1].stream /\ BlankBody)) =>
        IF sent[1].path = MODELS_PATH /\ backend.status_code = 200
        THEN IF IsListing(backend.json)
             THEN /\ replies[1].kind = "json"
                  /\ replies[1].status = 200
                  /\ IsRewriteOf(replies[1].json, backend.json)
             ELSE /\ replies[1].kind # "error"
                  /\ replies[1].status = backend.status_code
                  /\ \/ replies[1].content = backend.content
                     \/ replies[1].json = backend.json
        ELSE IsRelay(replies[1])

\* at most one outbound call, at most one reply, and one reply once the
\* request is handled
OneCallOneReply ==
    /\ Len(sent) <= 1
    /\ Len(replies) <= 1
    /\ pc = "waiting" => Len(sent) = 1 /\ replies = <<>>
    /\ pc = "responded" => Len(replies) = 1

\* C10 as stated: at most one outbound call per request, and whenever the
\* call fails at transport level or any other exception occurs, the one
\* reply is 500 with {"error": <message>}.
C10_AnyExceptionGives500 ==
    /\ OneCallOneReply
    /\ (pc = "responded" /\ raised # <<>>) =>
          /\ replies[1].status = 500
          /\ replies[1].kind = "error"

\* the exceptions proxy handles before its last except clauses: those the
\* listing rewrite catches, and a failed read inside the streaming generator
HandledLocally(e) ==
    \/ e.at = "models" /\ e.name \in {"ValueError", "KeyError"}
    \/ e.at = "generate"

\* C10: at most one outbound call per request and exactly one reply; an
\* exception that the listing rewrite does not catch as ValueError or
\* KeyError, and that is not a failed read inside the streaming generator,
\* gives the reply 500 with {"error": <message of that exception>}; an
\* exception handled in one of these two places gives a relay with the
\* backend's status instead.
C10_UnhandledExceptionGives500 ==
    /\ OneCallOneReply
    /\ pc = "responded" =>
          \A i \in 1..Len(raised) :
              IF HandledLocally(raised[i])
              THEN replies[1].kind \in {"raw", "stream"}
                   /\ replies[1].status = backend.status_code
              ELSE replies[1] = [status |-> 500, kind |-> "error",
                                 error |-> raised[i].name,
                                 content |-> <<>>, json |-> None]

\* the outbound call failed at transport level and the request was answered
C10_Witness ==
    /\ pc = "responded"
    /\ backend = [kind |-> "error"]
    /\ Len(sent) = 1
    /\ raised = <<[name |-> "RequestException", at |-> "call"]>>
    /\ Len(replies) = 1
    /\ replies[1].status = 500

====
